---- MODULE Spec2Model ----
(***************************************************************************)
(* Model of cpufreqd's filesystem capability layer (cpufreqd/src/fs.rs):   *)
(* the in-memory double TestFs, its handles (TestFile), OpenOptions and    *)
(* the directory listing derived from the flat key set.                    *)
(*                                                                         *)
(* A Path is modelled by what Rust's Path equality and hashing observe:    *)
(* its component sequence.  An absolute path string "/s1/s2/.../sn" is the *)
(* sequence of its segments <<s1, ..., sn>>; PathNew turns it into the     *)
(* components <<"/", ...>> (RootDir first), dropping empty and "."         *)
(* segments as Path::components does.                                      *)
(* A String is the sequence of its code points, a byte slice the sequence  *)
(* of its bytes.                                                           *)
(***************************************************************************)
EXTENDS Integers, Sequences, FiniteSets, TLC

\* ---- bounds of the model ----
MaxRawLen == 2
MaxKeys == 2
MaxHandles == 1
MaxBytes == 1

\* ---- input universes ----
Names == {"a", "b"}
Segments == Names \cup {"", "."}
RawPaths == UNION {[1..n -> Segments] : n \in 0..MaxRawLen}
\* bytes: "a", and the lead and continuation byte of U+00E9 (0xC3 0xA9)
ByteVals == {97, 195, 169}
ByteSeqs == UNION {[1..n -> ByteVals] : n \in 0..MaxBytes}
SeedLists == UNION {[1..n -> RawPaths] : n \in 0..MaxKeys}

\* ---- io::Result ----
Ok(v) == [ok |-> TRUE, val |-> v]
Err(kind) == [ok |-> FALSE, err |-> kind]

\* ---- OpenOptions ----
OpenOptions == [read : BOOLEAN, write : BOOLEAN, append : BOOLEAN, create : BOOLEAN]
DefaultOptions == [read |-> FALSE, write |-> FALSE, append |-> FALSE, create |-> FALSE]

\* ---- Path ----
RootDir == "/"
PathNew(raw) == <<RootDir>> \o SelectSeq(raw, LAMBDA s : s \notin {"", "."})
Paths == {PathNew(raw) : raw \in RawPaths}
starts_with(p, base) == Len(base) <= Len(p) /\ SubSeq(p, 1, Len(base)) = base

\* ---- String ----
NoContent == <<110, 111, 32, 99, 111, 110, 116, 101, 110, 116>>

\* String::from_utf8 on the one- and two-byte forms, all that ByteVals can make
\* (longer forms start with a byte >= 224): a lone lead or continuation byte,
\* and the overlong leads 0xC0 and 0xC1, are errors.
RECURSIVE from_utf8(_)
from_utf8(b) ==
  IF b = <<>> THEN Ok(<<>>)
  ELSE IF b[1] < 128
    THEN LET r == from_utf8(Tail(b))
         IN IF r.ok THEN Ok(<<b[1]>> \o r.val) ELSE r
  ELSE IF b[1] >= 194 /\ b[1] <= 223 /\ Len(b) >= 2 /\ b[2] >= 128 /\ b[2] <= 191
    THEN LET r == from_utf8(SubSeq(b, 3, Len(b)))
         IN IF r.ok THEN Ok(<<(b[1] - 192) * 64 + (b[2] - 128)>> \o r.val) ELSE r
  ELSE Err("FromUtf8Error")

\* ---- TestFs: HashMap<Arc<Path>, String> ----
EmptyTable == [p \in {} |-> NoContent]
\* faulty variant: entry(k).or_insert(v), an existing entry keeps its value
insert_or_keep(table, k, v) ==
  [p \in (DOMAIN table) \cup {k} |-> IF p \in DOMAIN table THEN table[p] ELSE v]

insert(table, k, v) == [p \in (DOMAIN table) \cup {k} |-> IF p = k THEN v ELSE table[p]]

RECURSIVE new(_)
new(l) ==
  IF l = <<>> THEN EmptyTable
  ELSE insert(new(SubSeq(l, 1, Len(l) - 1)), PathNew(l[Len(l)]), NoContent)

\* ---- TestFile, TestDirEnt ----
TestFile(path, options) == [path |-> path, options |-> options]
File(p) == [tag |-> "File", path |-> p]
Dir(p) == [tag |-> "Dir", path |-> p]

\* ---- multisets standing for the iterators and the Vec of _dir (order dropped) ----
\* faulty variant: collected into a Vec, every mapped entry kept
CollectHashSet_keep_all(bag) == bag

CollectHashSet(bag) == [e \in DOMAIN bag |-> 1]
IntoVec(set) == set

\* ---- impl TestFs ----
\* faulty variant: a path with stored keys below it counts as existing
_exists_or_implied(fs, path) ==
  Ok(path \in DOMAIN fs \/ \E k \in DOMAIN fs : k # path /\ starts_with(k, path))

_exists(fs, path) == Ok(path \in DOMAIN fs)

DirEntOf(p, len_path) ==
  IF Len(p) > len_path + 1 THEN Dir(SubSeq(p, 1, len_path + 1)) ELSE File(p)

\* the iterator after .map(..): each entry with the number of keys mapped to it
MapDirEnt(filtered, len_path) ==
  [e \in {DirEntOf(p, len_path) : p \in filtered}
     |-> Cardinality({p \in filtered : DirEntOf(p, len_path) = e})]

\* faulty variant: the stored-file check is left out
_dir_unchecked(fs, path) ==
  LET len_path == Len(path)
      filtered == {p \in DOMAIN fs : p # path /\ starts_with(p, path)}
      mapped == MapDirEnt(filtered, len_path)
  IN Ok(IntoVec(CollectHashSet(mapped)))

\* faulty variant: a path with nothing below it is reported as missing
_dir_missing_when_empty(fs, path) ==
  IF _exists(fs, path).val THEN Err("NotADirectory")
  ELSE LET len_path == Len(path)
           filtered == {p \in DOMAIN fs : p # path /\ starts_with(p, path)}
           mapped == MapDirEnt(filtered, len_path)
       IN IF filtered = {} THEN Err("NotFound")
          ELSE Ok(IntoVec(CollectHashSet(mapped)))

_dir(fs, path) ==
  IF _exists(fs, path).val THEN Err("NotADirectory")
  ELSE LET len_path == Len(path)
           filtered == {p \in DOMAIN fs : p # path /\ starts_with(p, path)}
           mapped == MapDirEnt(filtered, len_path)
       IN Ok(IntoVec(CollectHashSet(mapped)))

\* faulty variant: the derivation is consulted without the key lookup first
_is_dir_derived_only(fs, path) ==
  LET d == _dir(fs, path)
  IN IF ~d.ok THEN (IF d.err = "NotADirectory" THEN Ok(FALSE) ELSE d)
     ELSE Ok(TRUE)

_is_dir(fs, path) ==
  IF ~_exists(fs, path).val THEN Ok(FALSE)
  ELSE LET d == _dir(fs, path)
       IN IF ~d.ok THEN (IF d.err = "NotADirectory" THEN Ok(FALSE) ELSE d)
          ELSE Ok(TRUE)

\* ---- impl Fs for TestFs ----
exists(fs, raw) == _exists(fs, PathNew(raw))

\* faulty variant: the create flag is not consulted
open_existing_only(fs, options, raw) ==
  IF exists(fs, raw).val
    THEN Ok(TestFile(PathNew(raw), options))
    ELSE Err("NotFound")

\* faulty variant: a handle is handed out whatever the table holds
open_unconditional(fs, options, raw) == Ok(TestFile(PathNew(raw), options))

open(fs, options, raw) ==
  IF exists(fs, raw).val \/ options.create
    THEN Ok(TestFile(PathNew(raw), options))
    ELSE Err("NotFound")

\* faulty variant: the created entry gets an empty String, the content is dropped
write_to_create_empty(fs, f, content) ==
  IF ~f.options.write THEN [res |-> Err("PermissionDenied"), fs |-> fs]
  ELSE LET decoded == from_utf8(content)
       IN IF ~decoded.ok THEN [res |-> Err("Other"), fs |-> fs]
          ELSE LET d == _is_dir(fs, f.path)
               IN IF ~d.ok THEN [res |-> d, fs |-> fs]
                  ELSE IF d.val THEN [res |-> Err("IsADirectory"), fs |-> fs]
                  ELSE IF f.path \notin DOMAIN fs /\ f.options.create
                    THEN [res |-> Ok(<<>>), fs |-> insert(fs, f.path, <<>>)]
                  ELSE IF f.path \notin DOMAIN fs
                    THEN [res |-> Err("NotFound"), fs |-> fs]
                  ELSE [res |-> Ok(<<>>), fs |-> insert(fs, f.path, decoded.val)]

\* faulty variant: the NotFound return is missing, every permitted write inserts
write_to_upsert(fs, f, content) ==
  IF ~f.options.write THEN [res |-> Err("PermissionDenied"), fs |-> fs]
  ELSE LET decoded == from_utf8(content)
       IN IF ~decoded.ok THEN [res |-> Err("Other"), fs |-> fs]
          ELSE LET d == _is_dir(fs, f.path)
               IN IF ~d.ok THEN [res |-> d, fs |-> fs]
                  ELSE IF d.val THEN [res |-> Err("IsADirectory"), fs |-> fs]
                  ELSE [res |-> Ok(<<>>), fs |-> insert(fs, f.path, decoded.val)]

\* faulty variant: the entry is truncated before the bytes are decoded
write_to_truncate_first(fs, f, content) ==
  IF ~f.options.write THEN [res |-> Err("PermissionDenied"), fs |-> fs]
  ELSE LET decoded == from_utf8(content)
       IN IF ~decoded.ok
            THEN [res |-> Err("Other"),
                  fs |-> IF f.path \in DOMAIN fs THEN insert(fs, f.path, <<>>) ELSE fs]
          ELSE LET d == _is_dir(fs, f.path)
               IN IF ~d.ok THEN [res |-> d, fs |-> fs]
                  ELSE IF d.val THEN [res |-> Err("IsADirectory"), fs |-> fs]
                  ELSE IF f.path \notin DOMAIN fs /\ f.options.create
                    THEN [res |-> Ok(<<>>), fs |-> insert(fs, f.path, decoded.val)]
                  ELSE IF f.path \notin DOMAIN fs
                    THEN [res |-> Err("NotFound"), fs |-> fs]
                  ELSE [res |-> Ok(<<>>), fs |-> insert(fs, f.path, decoded.val)]

\* faulty variant: creating an entry also creates an entry for its parent
write_to_create_parents(fs, f, content) ==
  IF ~f.options.write THEN [res |-> Err("PermissionDenied"), fs |-> fs]
  ELSE LET decoded == from_utf8(content)
       IN IF ~decoded.ok THEN [res |-> Err("Other"), fs |-> fs]
          ELSE LET d == _is_dir(fs, f.path)
                   parent == SubSeq(f.path, 1, Len(f.path) - 1)
                   with_parent == IF Len(f.path) > 1 /\ parent \notin DOMAIN fs
                                    THEN insert(fs, parent, <<>>)
                                    ELSE fs
               IN IF ~d.ok THEN [res |-> d, fs |-> fs]
                  ELSE IF d.val THEN [res |-> Err("IsADirectory"), fs |-> fs]
                  ELSE IF f.path \notin DOMAIN fs /\ f.options.create
                    THEN [res |-> Ok(<<>>), fs |-> insert(with_parent, f.path, decoded.val)]
                  ELSE IF f.path \notin DOMAIN fs
                    THEN [res |-> Err("NotFound"), fs |-> fs]
                  ELSE [res |-> Ok(<<>>), fs |-> insert(fs, f.path, decoded.val)]

\* write_to takes &mut self: the result and the table it leaves behind
write_to(fs, f, content) ==
  IF ~f.options.write THEN [res |-> Err("PermissionDenied"), fs |-> fs]
  ELSE LET decoded == from_utf8(content)
       IN IF ~decoded.ok THEN [res |-> Err("Other"), fs |-> fs]
          ELSE LET d == _is_dir(fs, f.path)
               IN IF ~d.ok THEN [res |-> d, fs |-> fs]
                  ELSE IF d.val THEN [res |-> Err("IsADirectory"), fs |-> fs]
                  ELSE IF f.path \notin DOMAIN fs /\ f.options.create
                    THEN [res |-> Ok(<<>>), fs |-> insert(fs, f.path, decoded.val)]
                  ELSE IF f.path \notin DOMAIN fs
                    THEN [res |-> Err("NotFound"), fs |-> fs]
                  ELSE [res |-> Ok(<<>>), fs |-> insert(fs, f.path, decoded.val)]

dir(fs, raw) == _dir(fs, PathNew(raw))

\* faulty variant: the lookup comes before the permission check
read_to_string_lookup_first(fs, f) ==
  LET d == _is_dir(fs, f.path)
  IN IF ~d.ok THEN d
     ELSE IF d.val THEN Err("IsADirectory")
     ELSE IF f.path \notin DOMAIN fs THEN Err("NotFound")
     ELSE IF ~f.options.read THEN Err("PermissionDenied")
     ELSE Ok(fs[f.path])

\* faulty variant: a path without an entry reads as the empty text
read_to_string_or_default(fs, f) ==
  LET d == _is_dir(fs, f.path)
  IN IF ~d.ok THEN d
     ELSE IF d.val THEN Err("IsADirectory")
     ELSE IF ~f.options.read THEN Err("PermissionDenied")
     ELSE IF f.path \notin DOMAIN fs THEN Ok(<<>>)
     ELSE Ok(fs[f.path])

read_to_string(fs, f) ==
  LET d == _is_dir(fs, f.path)
  IN IF ~d.ok THEN d
     ELSE IF d.val THEN Err("IsADirectory")
     ELSE IF ~f.options.read THEN Err("PermissionDenied")
     ELSE IF f.path \notin DOMAIN fs THEN Err("NotFound")
     ELSE Ok(fs[f.path])

is_dir(dirent) == dirent.tag = "Dir"
is_file(dirent) == ~is_dir(dirent)

\* ---- vocabulary of the properties (independent of the operators above) ----
IsStrictPrefix(p, k) == Len(p) < Len(k) /\ \A i \in 1..Len(p) : p[i] = k[i]
HasDescendant(fs, p) == \E k \in DOMAIN fs : IsStrictPrefix(p, k)
NoCollision(keys) == \A p \in keys, k \in keys : ~IsStrictPrefix(p, k)

RECURSIVE Components(_)
Components(raw) ==
  IF raw = <<>> THEN <<>>
  ELSE IF Head(raw) = "" \/ Head(raw) = "." THEN Components(Tail(raw))
  ELSE <<Head(raw)>> \o Components(Tail(raw))
SamePath(r1, r2) == Components(r1) = Components(r2)
\* the Path a path string names: the root followed by its components
PathOf(raw) == <<RootDir>> \o Components(raw)

\* texts and their UTF-8 encoding (str::as_bytes), the inverse of the decoding in write_to
CodePoints == {97, 233}
Texts == UNION {[1..n -> CodePoints] : n \in 0..MaxBytes}
RECURSIVE as_bytes(_)
as_bytes(t) ==
  IF t = <<>> THEN <<>>
  ELSE IF Head(t) < 128 THEN <<Head(t)>> \o as_bytes(Tail(t))
  ELSE <<192 + (Head(t) \div 64), 128 + (Head(t) % 64)>> \o as_bytes(Tail(t))
NotText == <<-1>>
TextOf(content) ==
  IF \E t \in Texts : as_bytes(t) = content
    THEN CHOOSE t \in Texts : as_bytes(t) = content
    ELSE NotText
Record(history, k, v) ==
  [p \in (DOMAIN history) \cup {k} |-> IF p = k THEN v ELSE history[p]]

\* ---- state ----
VARIABLES
  store,      \* TestFs.0: the table Path -> String
  handles,    \* the TestFile values the callers hold
  seed,       \* history: the keys the table was constructed with
  written,    \* history: per path, the text of its latest successful write_to
  last        \* history: the latest call, its arguments and its result

vars == <<store, handles, seed, written, last>>

NoFile == TestFile(<<>>, DefaultOptions)
Call(op, l, path, f, content, res) ==
  [op |-> op, l |-> l, path |-> path, f |-> f, content |-> content, res |-> res]

\* TestFs::new(l)
Init ==
  \E l \in SeedLists :
    /\ store = new(l)
    /\ handles = {}
    /\ seed = DOMAIN new(l)
    /\ written = EmptyTable
    /\ last = Call("new", l, <<>>, NoFile, <<>>, Ok(<<>>))

CallExists(raw) ==
  /\ last' = Call("exists", <<>>, PathNew(raw), NoFile, <<>>, exists(store, raw))
  /\ UNCHANGED <<store, handles, seed, written>>

\* faulty variant: open with create makes the entry at once, as a file system does
CallOpen_creates(options, raw) ==
  LET r == open(store, options, raw)
      created == r.ok /\ PathNew(raw) \notin DOMAIN store
  IN /\ r.ok => (r.val \in handles \/ Cardinality(handles) < MaxHandles)
     /\ created => Cardinality(DOMAIN store) < MaxKeys
     /\ handles' = IF r.ok THEN handles \cup {r.val} ELSE handles
     /\ store' = IF created THEN insert(store, PathNew(raw), <<>>) ELSE store
     /\ last' = Call("open", <<>>, PathNew(raw), IF r.ok THEN r.val ELSE NoFile, <<>>, r)
     /\ UNCHANGED <<seed, written>>

CallOpen(options, raw) ==
  LET r == open(store, options, raw)
  IN /\ r.ok => (r.val \in handles \/ Cardinality(handles) < MaxHandles)
     /\ handles' = IF r.ok THEN handles \cup {r.val} ELSE handles
     /\ last' = Call("open", <<>>, PathNew(raw), IF r.ok THEN r.val ELSE NoFile, <<>>, r)
     /\ UNCHANGED <<store, seed, written>>

CallWriteTo(f, content) ==
  LET w == write_to(store, f, content)
  IN /\ Cardinality(DOMAIN w.fs) <= MaxKeys
     /\ store' = w.fs
     /\ written' = IF w.res.ok THEN Record(written, f.path, TextOf(content)) ELSE written
     /\ last' = Call("write_to", <<>>, f.path, f, content, w.res)
     /\ UNCHANGED <<handles, seed>>

CallReadToString(f) ==
  /\ last' = Call("read_to_string", <<>>, f.path, f, <<>>, read_to_string(store, f))
  /\ UNCHANGED <<store, handles, seed, written>>

CallDir(raw) ==
  /\ last' = Call("dir", <<>>, PathNew(raw), NoFile, <<>>, dir(store, raw))
  /\ UNCHANGED <<store, handles, seed, written>>

\* a TestFile built as a struct literal inside the module, not by open
Literal(path, options) ==
  /\ Cardinality(handles) < MaxHandles
  /\ handles' = handles \cup {TestFile(path, options)}
  /\ last' = Call("literal", <<>>, path, TestFile(path, options), <<>>, Ok(<<>>))
  /\ UNCHANGED <<store, seed, written>>

\* the call returns: the caller takes the result and is free to call again
Idle == Call("idle", <<>>, <<>>, NoFile, <<>>, Ok(<<>>))
Return ==
  /\ last # Idle
  /\ last' = Idle
  /\ UNCHANGED <<store, handles, seed, written>>

\* single-threaded and synchronous: one call at a time
Next ==
  \/ last = Idle /\ \E raw \in RawPaths : CallExists(raw)
  \/ last = Idle /\ \E options \in OpenOptions, raw \in RawPaths : CallOpen(options, raw)
  \/ last = Idle /\ \E f \in handles, content \in ByteSeqs : CallWriteTo(f, content)
  \/ last = Idle /\ \E f \in handles : CallReadToString(f)
  \/ last = Idle /\ \E raw \in RawPaths : CallDir(raw)
  \/ Return

Spec == Init /\ [][Next]_vars

NextLit ==
  \/ Next
  \/ last = Idle /\ \E path \in Paths, options \in OpenOptions : Literal(path, options)

SpecLit == Init /\ [][NextLit]_vars

\* ======================= properties =======================
\* The properties of the form "for every input" are stated of the states between
\* calls (last = Idle), where every table the program reaches is met; the
\* properties of the calls made are stated of the states the calls end in.
ReadOptions == {o \in OpenOptions : o.read}
NoReadOptions == {o \in OpenOptions : ~o.read}

\* C1: round trip. A write_to of a valid text through a handle opened with create
\* and write on a path that was neither a stored key nor a strict prefix of one
\* succeeds, and a read_to_string through any handle then opened on that path
\* with the read flag returns exactly the text whose bytes were written.
C1_RoundTrip ==
  [][(/\ last'.op = "write_to"
      /\ last'.f.options.create /\ last'.f.options.write
      /\ last'.path \notin DOMAIN store
      /\ ~HasDescendant(store, last'.path)
      /\ \E t \in Texts : as_bytes(t) = last'.content)
     => /\ last'.res.ok
        /\ \A raw \in RawPaths, o \in ReadOptions :
             PathOf(raw) = last'.path
             => /\ open(store', o, raw).ok
                /\ read_to_string(store', open(store', o, raw).val)
                     = Ok(TextOf(last'.content))]_vars

\* C1 witness: a read through a read-flagged handle returned the text written to
\* a path that write_to created (absent from the seed, no stored key below it).
C1_Witness ==
  /\ last.op = "read_to_string"
  /\ last.f.options.read /\ last.f.options.create /\ last.f.options.write
  /\ last.path \notin seed
  /\ ~HasDescendant(store, last.path)
  /\ last.path \in DOMAIN written
  /\ last.res = Ok(written[last.path])

\* C2: last write wins. For every path that has been written, a read through
\* any read-flagged handle on it (held since before the write or made now,
\* whatever its append and create flags) returns the text of the latest
\* successful write_to on that path.
C2_LastWriteWins ==
  /\ last = Idle =>
     \A p \in DOMAIN written :
       /\ p \in DOMAIN store
       /\ \A o \in ReadOptions : read_to_string(store, TestFile(p, o)) = Ok(written[p])
  /\ \A f \in handles :
       (f.options.read /\ f.path \in DOMAIN written)
       => read_to_string(store, f) = Ok(written[f.path])
  /\ (last.op = "read_to_string" /\ last.f.options.read /\ last.path \in DOMAIN written)
     => last.res = Ok(written[last.path])

\* C2 witness: a seeded path's placeholder was overwritten and the read through
\* the handle that was open before the write returned the written text.
C2_Witness ==
  /\ last.op = "read_to_string"
  /\ last.path \in seed
  /\ last.path \in DOMAIN written
  /\ last.f \in handles
  /\ last.res = Ok(written[last.path])
  /\ last.res.val # NoContent

\* C3: exists(p) is key membership. Right after TestFs::new(l) it is true for
\* exactly the paths of l, and in every state it is true exactly for the keys
\* of the table (false for a path that is only a prefix of keys).
C3_ExistsIffKey ==
  /\ last.op = "new"
     => \A raw \in RawPaths :
          exists(store, raw) = Ok(\E i \in 1..Len(last.l) : SamePath(last.l[i], raw))
  /\ last = Idle =>
     \A raw \in RawPaths :
       exists(store, raw) = Ok(PathOf(raw) \in DOMAIN store)
  /\ last.op = "exists" => last.res = Ok(last.path \in DOMAIN store)

\* C3 witness: exists answered false for a path that is a strict prefix of a key.
C3_Witness ==
  /\ last.op = "exists"
  /\ last.res = Ok(FALSE)
  /\ HasDescendant(store, last.path)

\* C4: open(options, p) returns a handle recording exactly p and options when p
\* is a stored key or options.create is set, and fails NotFound otherwise.
C4_OpenIffKeyOrCreate ==
  /\ last = Idle =>
     \A raw \in RawPaths, o \in OpenOptions :
       IF PathOf(raw) \in DOMAIN store \/ o.create
         THEN open(store, o, raw) = Ok([path |-> PathOf(raw), options |-> o])
         ELSE open(store, o, raw) = Err("NotFound")
  /\ last.op = "open"
     => IF last.res.ok
          THEN /\ last.res.val \in handles
               /\ last.res.val.path = last.path
               /\ last.path \in DOMAIN store \/ last.res.val.options.create
          ELSE last.res = Err("NotFound") /\ last.path \notin DOMAIN store

\* C4 witness: open succeeded on a path that is not stored, because create was set.
C4_Witness ==
  /\ last.op = "open"
  /\ last.res.ok
  /\ last.path \notin DOMAIN store
  /\ last.res.val.options.create
  /\ last.res.val \in handles

\* the listing C5 describes for a path P over a key set
ExpectedListing(keys, P) ==
  {File(k) : k \in {k \in keys : IsStrictPrefix(P, k) /\ Len(k) = Len(P) + 1}}
  \cup {Dir(P \o <<c>>) : c \in {c \in Names : \E k \in keys : IsStrictPrefix(P \o <<c>>, k)}}

\* C5: for a path P that is not a stored key, dir(P) succeeds and lists, each
\* exactly once, File(k) for the keys k one component below P and Dir(P/c) for
\* every component c with a key strictly below P/c; nothing else.
C5_DirListing ==
  /\ last = Idle =>
     \A raw \in RawPaths :
       PathOf(raw) \notin DOMAIN store
       => dir(store, raw) = Ok([e \in ExpectedListing(DOMAIN store, PathOf(raw)) |-> 1])
  /\ (last.op = "dir" /\ last.path \notin DOMAIN store)
     => last.res = Ok([e \in ExpectedListing(DOMAIN store, last.path) |-> 1])

\* C5 witness: dir listed one Dir entry that stands for two stored keys.
C5_Witness ==
  /\ last.op = "dir"
  /\ last.res.ok
  /\ \E e \in DOMAIN last.res.val :
       /\ e.tag = "Dir"
       /\ Cardinality({k \in DOMAIN store : IsStrictPrefix(e.path, k)}) >= 2

\* C6: dir(P) fails NotADirectory whenever P is a stored key, also when other
\* stored keys lie below P.
C6_DirOnFile ==
  /\ last = Idle =>
     \A raw \in RawPaths :
       PathOf(raw) \in DOMAIN store
       => dir(store, raw) = Err("NotADirectory")
  /\ (last.op = "dir" /\ last.path \in DOMAIN store) => last.res = Err("NotADirectory")

\* C6 witness: dir failed NotADirectory on a stored key that has keys below it.
C6_Witness ==
  /\ last.op = "dir"
  /\ last.path \in DOMAIN store
  /\ HasDescendant(store, last.path)
  /\ last.res = Err("NotADirectory")

\* C7: read_to_string through a handle without the read flag fails
\* PermissionDenied, whether or not the handle's path is a stored key.
C7_ReadNeedsReadFlag ==
  /\ last = Idle =>
     \A p \in Paths, o \in NoReadOptions :
       read_to_string(store, TestFile(p, o)) = Err("PermissionDenied")
  /\ (last.op = "read_to_string" /\ ~last.f.options.read)
     => last.res = Err("PermissionDenied")

\* C7 witness: a handle opened with create on an absent path, without the read
\* flag, was read and the read reported PermissionDenied.
C7_Witness ==
  /\ last.op = "read_to_string"
  /\ ~last.f.options.read
  /\ last.f.options.create
  /\ last.path \notin DOMAIN store
  /\ last.res = Err("PermissionDenied")

\* C8 as claimed: write_to through any handle that lacks the create flag and
\* whose path is not a stored key fails NotFound.
C8_Claimed ==
  (last.op = "write_to" /\ ~last.f.options.create /\ last.path \notin DOMAIN store)
  => last.res = Err("NotFound")

WriteNoCreateOptions == {o \in OpenOptions : o.write /\ ~o.create}
ValidContents == {as_bytes(t) : t \in Texts} \cap ByteSeqs

\* C8 as amended: write_to of valid text through a handle that has the write
\* flag, lacks the create flag and whose path is not a stored key fails NotFound
\* and leaves the table as it was.
C8_WriteAbsentNoCreate ==
  /\ last = Idle =>
     \A p \in Paths \ DOMAIN store, o \in WriteNoCreateOptions, content \in ValidContents :
       write_to(store, TestFile(p, o), content) = [res |-> Err("NotFound"), fs |-> store]
  /\ (/\ last.op = "write_to"
      /\ last.f.options.write /\ ~last.f.options.create
      /\ last.content \in ValidContents
      /\ last.path \notin DOMAIN store)
     => last.res = Err("NotFound")

\* C8 witness: such a write was made and reported NotFound.
C8_Witness ==
  /\ last.op = "write_to"
  /\ last.f.options.write /\ ~last.f.options.create
  /\ last.content \in ValidContents
  /\ last.path \notin DOMAIN store
  /\ last.res = Err("NotFound")

\* C9 as claimed: when no seeded path is a strict prefix of another, no stored
\* key is ever a strict prefix of another stored key.
C9_Claimed == NoCollision(seed) => NoCollision(DOMAIN store)

\* C10 as claimed: write_to of valid text through a write-flagged handle, and
\* read_to_string, fail IsADirectory when the handle's path is a strict prefix
\* of a stored key.
C10_Claimed ==
  /\ (/\ last.op = "write_to"
      /\ last.f.options.write
      /\ last.content \in ValidContents
      /\ HasDescendant(store, last.path))
     => last.res = Err("IsADirectory")
  /\ (last.op = "read_to_string" /\ HasDescendant(store, last.path))
     => last.res = Err("IsADirectory")

\* C11 as claimed: when several failure conditions hold at once, write_to and
\* read_to_string report the earliest of: directory classification
\* (IsADirectory), permission (PermissionDenied), content decoding (the decode
\* error), existence and create (NotFound).
C11_Claimed ==
  /\ last.op = "write_to"
     => IF HasDescendant(store, last.path) THEN last.res = Err("IsADirectory")
        ELSE IF ~last.f.options.write THEN last.res = Err("PermissionDenied")
        ELSE IF last.content \notin ValidContents THEN last.res = Err("Other")
        ELSE IF last.path \notin DOMAIN store THEN last.res = Err("NotFound")
        ELSE last.res.ok
  /\ last.op = "read_to_string"
     => IF HasDescendant(store, last.path) THEN last.res = Err("IsADirectory")
        ELSE IF ~last.f.options.read THEN last.res = Err("PermissionDenied")
        ELSE IF last.path \notin DOMAIN store THEN last.res = Err("NotFound")
        ELSE last.res.ok

\* C12: the key set never shrinks; a key is added only by a successful
\* write_to through a create-flagged handle whose path was not stored, and it
\* is that path; a stored content changes only through a successful write_to.
C12_StoreLifecycle ==
  [][/\ DOMAIN store \subseteq DOMAIN store'
     /\ DOMAIN store' # DOMAIN store
        => /\ last'.op = "write_to" /\ last'.res.ok
           /\ last'.f.options.create
           /\ last'.path \notin DOMAIN store
           /\ DOMAIN store' = DOMAIN store \cup {last'.path}
     /\ (\E k \in DOMAIN store : store'[k] # store[k])
        => last'.op = "write_to" /\ last'.res.ok]_vars

\* C12 witness: a write_to through a create-flagged handle has added a key to
\* a table that was constructed with other keys, which are all still there.
C12_Witness ==
  /\ last.op = "write_to" /\ last.res.ok
  /\ last.f.options.create
  /\ last.path \in DOMAIN store \ seed
  /\ seed # {}
  /\ seed \subseteq DOMAIN store

\* C13: open never changes the store. After open(options, p), successful or
\* not, the table has the same keys and contents; open with create on an
\* absent path does not make exists(p) true.
C13_OpenLeavesStore ==
  [][last'.op = "open"
     => /\ store' = store
        /\ last'.path \notin DOMAIN store
           => \A raw \in RawPaths :
                PathOf(raw) = last'.path => exists(store', raw) = Ok(FALSE)]_vars

\* C13 witness: open with create has succeeded on an absent path and the table
\* is still the seeded one, placeholder contents and all.
C13_Witness ==
  /\ last.op = "open" /\ last.res.ok
  /\ last.f.options.create
  /\ last.path \notin DOMAIN store
  /\ seed # {}
  /\ DOMAIN store = seed
  /\ \A k \in DOMAIN store : store[k] = NoContent

WriteErrors == {"PermissionDenied", "Other", "IsADirectory", "NotFound"}

\* C14: every write_to that returns an error leaves the table unchanged, same
\* keys and same contents; without the write flag the error is
\* PermissionDenied, with it and bytes that are not valid text the decode
\* error, and otherwise IsADirectory or NotFound.
C14_FailedWriteLeavesStore ==
  [][(last'.op = "write_to" /\ ~last'.res.ok)
     => /\ store' = store
        /\ last'.res.err \in WriteErrors
        /\ ~last'.f.options.write => last'.res.err = "PermissionDenied"
        /\ (last'.f.options.write /\ last'.content \notin ValidContents)
           => last'.res.err = "Other"]_vars

\* C14 witness: a write of bytes that are not valid text to a stored path was
\* turned away with the decode error and the path still has its content.
C14_Witness ==
  /\ last.op = "write_to"
  /\ last.res = Err("Other")
  /\ last.f.options.write
  /\ last.path \in DOMAIN written
  /\ store[last.path] = written[last.path]

\* C15 as claimed: the path-level classification _is_dir(P) is true exactly
\* when some other stored key has P as a component-wise strict prefix.
C15_Claimed ==
  last = Idle
  => \A p \in Paths : _is_dir(store, p) = Ok(HasDescendant(store, p))

\* C16: the path-level classification is false for every path absent from the
\* key set and false for every stored key, for which the derivation fails
\* NotADirectory; so neither read_to_string nor write_to reports IsADirectory.
C16_IsDirFalse ==
  /\ last = Idle
     => \A p \in Paths :
          /\ p \notin DOMAIN store => _is_dir(store, p) = Ok(FALSE)
          /\ p \in DOMAIN store
             => /\ _dir(store, p) = Err("NotADirectory")
                /\ _is_dir(store, p) = Ok(FALSE)
  /\ last.op \in {"read_to_string", "write_to"}
     => /\ _is_dir(store, last.path) = Ok(FALSE)
        /\ last.res # Err("IsADirectory")

\* C16 witness: read_to_string through a read-flagged handle on a path that is
\* absent from the key set and lies above a stored key was answered NotFound.
C16_Witness ==
  /\ last.op = "read_to_string"
  /\ last.f.options.read
  /\ last.path \notin DOMAIN store
  /\ HasDescendant(store, last.path)
  /\ last.res = Err("NotFound")

\* C17: read_to_string through a read-flagged handle fails NotFound while the
\* handle's path is not a stored key (the handle was opened with create and
\* nothing was written yet), and once a write_to has created the path the
\* handles on it that carry the read flag read successfully.
C17_ReadBeforeWrite ==
  [][/\ (last'.op = "read_to_string" /\ last'.f.options.read)
        => last'.res = IF last'.path \in DOMAIN store'
                         THEN Ok(store'[last'.path])
                         ELSE Err("NotFound")
     /\ (last'.op = "write_to" /\ last'.res.ok)
        => \A f \in handles' :
             (f.path = last'.path /\ f.options.read)
             => read_to_string(store', f) = Ok(store'[f.path])]_vars

\* C17 witness: a handle opened with create and read on a path that is neither
\* stored nor above a stored key was read before any write and got NotFound.
C17_Witness ==
  /\ last.op = "read_to_string"
  /\ last.f \in handles
  /\ last.f.options.read /\ last.f.options.create
  /\ last.path \notin DOMAIN store
  /\ ~HasDescendant(store, last.path)
  /\ last.res = Err("NotFound")

\* C18: handle invariant. For every handle returned by open, in every later
\* state the handle's path is a stored key or the handle has the create flag;
\* so write_to through such a handle never returns NotFound, whatever the
\* content.
C18_HandleInvariant ==
  /\ \A f \in handles : f.path \in DOMAIN store \/ f.options.create
  /\ last.op = "write_to" => last.res # Err("NotFound")
  /\ last = Idle
     => \A f \in handles, content \in ByteSeqs :
          write_to(store, f, content).res # Err("NotFound")

\* C18 witness: a write of valid text went through a handle that open returned
\* without the create flag, which it could only do for a stored path.
C18_Witness ==
  /\ last.op = "write_to"
  /\ last.f \in handles
  /\ ~last.f.options.create
  /\ last.f.options.write
  /\ last.content \in ValidContents
  /\ last.res.ok

\* C19: a successful write_to through a handle on path p changes only the
\* entry for p. Every other key keeps its content, no other key is added, and
\* the key set grows by at most the key p.
C19_WriteFrame ==
  [][(last'.op = "write_to" /\ last'.res.ok)
     => /\ \A k \in DOMAIN store \ {last'.path} :
             k \in DOMAIN store' /\ store'[k] = store[k]
        /\ DOMAIN store' \subseteq DOMAIN store \cup {last'.path}
        /\ last'.path \in DOMAIN store']_vars

\* C19 witness: a seeded entry was overwritten while a second seeded entry
\* kept its placeholder and the key set stayed the seeded one.
C19_Witness ==
  /\ last.op = "write_to" /\ last.res.ok
  /\ last.path \in seed
  /\ DOMAIN store = seed
  /\ store[last.path] # NoContent
  /\ \E k \in seed \ {last.path} : store[k] = NoContent

\* C20: dir(P) on a path that is neither a stored key nor a component-wise
\* strict prefix of a stored key succeeds with an empty listing, it does not
\* fail NotFound; and no dir call changes the table.
C20_DirOnUnknownPath ==
  [][last'.op = "dir"
     => /\ store' = store
        /\ (last'.path \notin DOMAIN store /\ ~HasDescendant(store, last'.path))
           => /\ last'.res.ok
              /\ DOMAIN last'.res.val = {}]_vars

\* C20 witness: dir gave the empty listing for a path below the root while the
\* table held entries elsewhere.
C20_Witness ==
  /\ last.op = "dir"
  /\ Len(last.path) > 1
  /\ DOMAIN store # {}
  /\ last.path \notin DOMAIN store
  /\ ~HasDescendant(store, last.path)
  /\ last.res = Ok(<<>>)

====
